---- MODULE Spec2Model ----
(***************************************************************************)
(* A model of ocrmypdf/pdfa.py: the pdfmark generator (generate_pdfa_ps),  *)
(* the PDF/A claim checker (file_claims_pdfa) and the two text encoders    *)
(* (encode_text_string, _encode_ascii).                                    *)
(*                                                                         *)
(* Python str values are sequences of Unicode code points, bytes values    *)
(* are sequences of integers in 0..255.  File names given by the caller    *)
(* are opaque and are TLA+ strings.  The platform is POSIX: os.fsencode is *)
(* UTF-8 with the surrogateescape error handler and text files are written *)
(* without newline translation.                                            *)
(***************************************************************************)
EXTENDS Integers, Sequences, FiniteSets, TLC

VARIABLES SRGB_ICC_PROFILE, fs, op, args, outcome, result, opened, open_handles

vars == <<SRGB_ICC_PROFILE, fs, op, args, outcome, result, opened, open_handles>>

(***************************************************************************)
(* Bounds of the model.                                                    *)
(***************************************************************************)
MaxPathLen == 2
MaxStatusLen == 2
MaxStrLen == 2

\* All sequences over S of length at most n.
SeqsUpTo(S, n) == UNION {[1..k -> S] : k \in 0..n}

(***************************************************************************)
(* Library conversions the module calls.                                   *)
(***************************************************************************)

\* The alphabet of binascii.hexlify: "0123456789abcdef".
hexdigits == <<48, 49, 50, 51, 52, 53, 54, 55, 56, 57, 97, 98, 99, 100, 101, 102>>

\* Variant of hexlify: the low nibble is written first.
hexlify_low_first(bs) ==
    [i \in 1..(2 * Len(bs)) |->
        IF i % 2 = 1 THEN hexdigits[(bs[(i + 1) \div 2] % 16) + 1]
                     ELSE hexdigits[(bs[i \div 2] \div 16) + 1]]

\* binascii.hexlify(bs): two lower-case hex digits per byte, high nibble first.
hexlify(bs) ==
    [i \in 1..(2 * Len(bs)) |->
        IF i % 2 = 1 THEN hexdigits[(bs[(i + 1) \div 2] \div 16) + 1]
                     ELSE hexdigits[(bs[i \div 2] % 16) + 1]]

\* The code points U+D800..U+DFFF.
IsSurrogate(c) == c >= 55296 /\ c <= 57343

\* The lone surrogates U+DC80..U+DCFF that surrogateescape maps to bytes 0x80..0xFF.
IsEscapedByte(c) == c >= 56448 /\ c <= 56575

\* UTF-8 of one code point under surrogateescape (os.fsencode on POSIX).
fsencode_char(c) ==
    IF IsEscapedByte(c) THEN <<c - 56320>>
    ELSE IF c < 128 THEN <<c>>
    ELSE IF c < 2048 THEN <<192 + (c \div 64), 128 + (c % 64)>>
    ELSE IF c < 65536 THEN <<224 + (c \div 4096), 128 + ((c \div 64) % 64), 128 + (c % 64)>>
    ELSE <<240 + (c \div 262144), 128 + ((c \div 4096) % 64),
           128 + ((c \div 64) % 64), 128 + (c % 64)>>

\* os.fsencode raises UnicodeEncodeError on a surrogate it cannot escape.
CanFsencode(s) == \A i \in 1..Len(s) : IsSurrogate(s[i]) => IsEscapedByte(s[i])

RECURSIVE fsencode(_)
\* os.fsencode(s) for a str s.
fsencode(s) == IF s = <<>> THEN <<>> ELSE fsencode_char(Head(s)) \o fsencode(Tail(s))

\* bytes.decode('ascii') and str.encode('ascii') succeed on values below 128 only;
\* the callers raise the codec's error when IsAscii fails.
IsAscii(xs) == \A i \in 1..Len(xs) : xs[i] < 128

\* bytes.decode('ascii') of ASCII bytes: each byte b becomes the code point b.
ascii_decode(bs) == [i \in 1..Len(bs) |-> bs[i]]

\* str.encode('ascii') of an ASCII str: each code point c becomes the byte c.
ascii_encode(s) == [i \in 1..Len(s) |-> s[i]]

(***************************************************************************)
(* The pdfmark template and string.Template.substitute.                    *)
(***************************************************************************)

\* pdfa_def_template, as code points.
pdfa_def_template == 
    <<     37, 33, 10, 37, 32, 68, 101, 102, 105, 110, 101, 32, 101, 110, 116, 114, 105, 101, 115, 32,
    105, 110, 32, 116, 104, 101, 32, 100, 111, 99, 117, 109, 101, 110, 116, 32, 73, 110, 102, 111,
    32, 100, 105, 99, 116, 105, 111, 110, 97, 114, 121, 32, 58, 10, 47, 73, 67, 67, 80, 114,
    111, 102, 105, 108, 101, 32, 36, 105, 99, 99, 95, 112, 114, 111, 102, 105, 108, 101, 10, 100,
    101, 102, 10, 10, 37, 32, 68, 101, 102, 105, 110, 101, 32, 97, 110, 32, 73, 67, 67, 32,
    112, 114, 111, 102, 105, 108, 101, 32, 58, 10, 10, 91, 47, 95, 111, 98, 106, 100, 101, 102,
    32, 123, 105, 99, 99, 95, 80, 68, 70, 65, 125, 32, 47, 116, 121, 112, 101, 32, 47, 115,
    116, 114, 101, 97, 109, 32, 47, 79, 66, 74, 32, 112, 100, 102, 109, 97, 114, 107, 10, 91,
    123, 105, 99, 99, 95, 80, 68, 70, 65, 125, 10, 60, 60, 10, 32, 32, 47, 78, 32, 99,
    117, 114, 114, 101, 110, 116, 112, 97, 103, 101, 100, 101, 118, 105, 99, 101, 32, 47, 80, 114,
    111, 99, 101, 115, 115, 67, 111, 108, 111, 114, 77, 111, 100, 101, 108, 32, 107, 110, 111, 119,
    110, 32, 123, 10, 32, 32, 32, 32, 99, 117, 114, 114, 101, 110, 116, 112, 97, 103, 101, 100,
    101, 118, 105, 99, 101, 32, 47, 80, 114, 111, 99, 101, 115, 115, 67, 111, 108, 111, 114, 77,
    111, 100, 101, 108, 32, 103, 101, 116, 32, 100, 117, 112, 32, 47, 68, 101, 118, 105, 99, 101,
    71, 114, 97, 121, 32, 101, 113, 10, 32, 32, 32, 32, 123, 112, 111, 112, 32, 49, 125, 32,
    123, 10, 32, 32, 32, 32, 32, 32, 47, 68, 101, 118, 105, 99, 101, 82, 71, 66, 32, 101,
    113, 10, 32, 32, 32, 32, 32, 32, 123, 51, 125, 123, 52, 125, 32, 105, 102, 101, 108, 115,
    101, 10, 32, 32, 32, 32, 125, 32, 105, 102, 101, 108, 115, 101, 10, 32, 32, 125, 32, 123,
    10, 32, 32, 32, 32, 40, 69, 82, 82, 79, 82, 44, 32, 117, 110, 97, 98, 108, 101, 32,
    116, 111, 32, 100, 101, 116, 101, 114, 109, 105, 110, 101, 32, 80, 114, 111, 99, 101, 115, 115,
    67, 111, 108, 111, 114, 77, 111, 100, 101, 108, 41, 32, 61, 61, 32, 102, 108, 117, 115, 104,
    10, 32, 32, 125, 32, 105, 102, 101, 108, 115, 101, 10, 62, 62, 32, 47, 80, 85, 84, 32,
    112, 100, 102, 109, 97, 114, 107, 10, 91, 123, 105, 99, 99, 95, 80, 68, 70, 65, 125, 32,
    73, 67, 67, 80, 114, 111, 102, 105, 108, 101, 32, 40, 114, 41, 32, 102, 105, 108, 101, 32,
    47, 80, 85, 84, 32, 112, 100, 102, 109, 97, 114, 107, 10, 10, 37, 32, 68, 101, 102, 105,
    110, 101, 32, 116, 104, 101, 32, 111, 117, 116, 112, 117, 116, 32, 105, 110, 116, 101, 110, 116,
    32, 100, 105, 99, 116, 105, 111, 110, 97, 114, 121, 32, 58, 10, 10, 91, 47, 95, 111, 98,
    106, 100, 101, 102, 32, 123, 79, 117, 116, 112, 117, 116, 73, 110, 116, 101, 110, 116, 95, 80,
    68, 70, 65, 125, 32, 47, 116, 121, 112, 101, 32, 47, 100, 105, 99, 116, 32, 47, 79, 66,
    74, 32, 112, 100, 102, 109, 97, 114, 107, 10, 91, 123, 79, 117, 116, 112, 117, 116, 73, 110,
    116, 101, 110, 116, 95, 80, 68, 70, 65, 125, 32, 60, 60, 10, 32, 32, 47, 84, 121, 112,
    101, 32, 47, 79, 117, 116, 112, 117, 116, 73, 110, 116, 101, 110, 116, 32, 32, 32, 32, 32,
    32, 32, 32, 32, 32, 32, 32, 32, 37, 32, 77, 117, 115, 116, 32, 98, 101, 32, 115, 111,
    32, 40, 116, 104, 101, 32, 115, 116, 97, 110, 100, 97, 114, 100, 32, 114, 101, 113, 117, 105,
    114, 101, 115, 41, 46, 10, 32, 32, 47, 83, 32, 47, 71, 84, 83, 95, 80, 68, 70, 65,
    49, 32, 32, 32, 32, 32, 32, 32, 32, 32, 32, 32, 32, 32, 32, 32, 32, 32, 32, 32,
    37, 32, 77, 117, 115, 116, 32, 98, 101, 32, 115, 111, 32, 40, 116, 104, 101, 32, 115, 116,
    97, 110, 100, 97, 114, 100, 32, 114, 101, 113, 117, 105, 114, 101, 115, 41, 46, 10, 32, 32,
    47, 68, 101, 115, 116, 79, 117, 116, 112, 117, 116, 80, 114, 111, 102, 105, 108, 101, 32, 123,
    105, 99, 99, 95, 80, 68, 70, 65, 125, 32, 32, 32, 32, 32, 32, 32, 32, 32, 32, 32,
    32, 37, 32, 77, 117, 115, 116, 32, 98, 101, 32, 115, 111, 32, 40, 115, 101, 101, 32, 97,
    98, 111, 118, 101, 41, 46, 10, 32, 32, 47, 79, 117, 116, 112, 117, 116, 67, 111, 110, 100,
    105, 116, 105, 111, 110, 73, 100, 101, 110, 116, 105, 102, 105, 101, 114, 32, 40, 36, 105, 99,
    99, 95, 105, 100, 101, 110, 116, 105, 102, 105, 101, 114, 41, 10, 62, 62, 32, 47, 80, 85,
    84, 32, 112, 100, 102, 109, 97, 114, 107, 10, 91, 123, 67, 97, 116, 97, 108, 111, 103, 125,
    32, 60, 60, 47, 79, 117, 116, 112, 117, 116, 73, 110, 116, 101, 110, 116, 115, 32, 91, 32,
    123, 79, 117, 116, 112, 117, 116, 73, 110, 116, 101, 110, 116, 95, 80, 68, 70, 65, 125, 32,
    93, 62, 62, 32, 47, 80, 85, 84, 32, 112, 100, 102, 109, 97, 114, 107, 10 >>

\* "icc_profile" and "icc_identifier", the names of the two placeholders.
key_icc_profile == <<105, 99, 99, 95, 112, 114, 111, 102, 105, 108, 101>>
key_icc_identifier == <<105, 99, 99, 95, 105, 100, 101, 110, 116, 105, 102, 105, 101, 114>>

\* string.Template identifiers: [_a-z][_a-z0-9]*, case-insensitive.
IsIdStart(c) == c = 95 \/ (c >= 97 /\ c <= 122) \/ (c >= 65 /\ c <= 90)
IsIdChar(c) == IsIdStart(c) \/ (c >= 48 /\ c <= 57)

\* The least member of a non-empty set of integers.
Min(S) == CHOOSE x \in S : \A y \in S : x <= y

RECURSIVE IdEnd(_, _)
\* The index of the last character of the identifier that starts at t[i].
IdEnd(t, i) == IF i = Len(t) \/ ~IsIdChar(t[i + 1]) THEN i ELSE IdEnd(t, i + 1)

RECURSIVE substitute_from(_, _, _)
\* Template.substitute on t[i..]: "$$" is a dollar, "$name" and "${name}" are
\* replaced by m[name] (KeyError when missing), any other "$" is a ValueError.
substitute_from(t, i, m) ==
    LET dollars == {j \in i..Len(t) : t[j] = 36}
    IN  IF dollars = {} THEN [err |-> "none", text |-> SubSeq(t, i, Len(t))]
        ELSE
        LET d == Min(dollars)
            lit == SubSeq(t, i, d - 1)
            Cont(val, k) ==
                LET r == substitute_from(t, k, m)
                IN  [err |-> r.err, text |-> lit \o val \o r.text]
            Named(b, e, k) ==
                LET name == SubSeq(t, b, e)
                IN  IF name \in DOMAIN m THEN Cont(m[name], k)
                    ELSE [err |-> "KeyError", text |-> lit]
            e1 == IdEnd(t, d + 1)
            e2 == IdEnd(t, d + 2)
        IN  IF d < Len(t) /\ t[d + 1] = 36 THEN Cont(<<36>>, d + 2)
            ELSE IF d < Len(t) /\ IsIdStart(t[d + 1]) THEN Named(d + 1, e1, e1 + 1)
            ELSE IF d + 1 < Len(t) /\ t[d + 1] = 123 /\ IsIdStart(t[d + 2])
                    /\ e2 < Len(t) /\ t[e2 + 1] = 125
                 THEN Named(d + 2, e2, e2 + 2)
            ELSE [err |-> "ValueError", text |-> lit]

\* _get_pdfa_def: Template(pdfa_def_template).substitute(icc_profile=..., icc_identifier=...)
_get_pdfa_def(icc_profile, icc_identifier) ==
    substitute_from(pdfa_def_template, 1,
        [k \in {key_icc_profile, key_icc_identifier} |->
            IF k = key_icc_profile THEN icc_profile ELSE icc_identifier])

(***************************************************************************)
(* generate_pdfa_ps                                                        *)
(***************************************************************************)

\* 'sRGB'
sRGB == <<115, 82, 71, 66>>

\* str.lower() on ASCII text.
lower(s) == [i \in 1..Len(s) |-> IF s[i] >= 65 /\ s[i] <= 90 THEN s[i] + 32 ELSE s[i]]

\* Variant of icc_supported: the identifier is compared without regard to case.
icc_supported_nocase(icc) == lower(icc) = lower(sRGB)

\* The test of line 165: only the identifier 'sRGB' has a profile.
icc_supported(icc) == icc = sRGB

\* Variant of hex_icc_profile: the path is embedded as text, not hex-encoded.
hex_icc_profile_plain(icc_profile) == <<60>> \o icc_profile \o <<62>>

\* Lines 177-179: '<' + hexlify(os.fsencode(icc_profile)).decode('ascii') + '>'
hex_icc_profile(icc_profile) ==
    <<60>> \o ascii_decode(hexlify(fsencode(icc_profile))) \o <<62>>

\* A file that does not exist.
NoFile == [exists |-> FALSE, data |-> <<>>]

\* A file holding the bytes data.
File(data) == [exists |-> TRUE, data |-> data]

\* Path(target_filename).write_text(ps, encoding='ascii'): open for writing
\* (which creates or truncates the file), encode, write, close.  io is what
\* the filesystem does: "ok", "open_fails", or "write_fails" once half of the
\* bytes are written.
write_text(target_filename, ps, io) ==
    IF io = "open_fails"
    THEN /\ outcome' = "OSError"
         /\ fs' = fs
         /\ opened' = 0
    ELSE /\ opened' = 1
         /\ IF ~IsAscii(ps)
            THEN /\ outcome' = "UnicodeEncodeError"
                 /\ fs' = [fs EXCEPT ![target_filename] = File(<<>>)]
            ELSE IF io = "write_fails"
            THEN /\ outcome' = "OSError"
                 /\ fs' = [fs EXCEPT ![target_filename] =
                              File(SubSeq(ascii_encode(ps), 1, Len(ps) \div 2))]
            ELSE /\ outcome' = "return"
                 /\ fs' = [fs EXCEPT ![target_filename] = File(ascii_encode(ps))]

\* generate_pdfa_ps(target_filename, icc=icc)
generate_pdfa_ps(target_filename, icc, io) ==
    /\ op' = "generate_pdfa_ps"
    /\ args' = [target_filename |-> target_filename, icc |-> icc, io |-> io]
    /\ result' = <<>>
    /\ open_handles' = 0
    /\ IF ~icc_supported(icc)
       THEN /\ outcome' = "NotImplementedError"
            /\ fs' = fs
            /\ opened' = 0
       ELSE IF ~CanFsencode(SRGB_ICC_PROFILE)
       THEN /\ outcome' = "UnicodeEncodeError"
            /\ fs' = fs
            /\ opened' = 0
       ELSE LET ps == _get_pdfa_def(hex_icc_profile(SRGB_ICC_PROFILE), icc)
            IN  IF ps.err # "none"
                THEN /\ outcome' = ps.err
                     /\ fs' = fs
                     /\ opened' = 0
                ELSE write_text(target_filename, ps.text, io)
    /\ UNCHANGED SRGB_ICC_PROFILE

(***************************************************************************)
(* file_claims_pdfa                                                        *)
(***************************************************************************)

\* 'No PDF/A metadata in XMP'
NO_PDFA_METADATA ==
    <<78, 111, 32, 80, 68, 70, 47, 65, 32, 109, 101, 116, 97, 100, 97, 116, 97,
      32, 105, 110, 32, 88, 77, 80>>

\* 'PDF/A-', the constant part of 'PDF/A-{}'
PDFA_PREFIX == <<80, 68, 70, 47, 65, 45>>

\* Variant of valid_part_conforms: '2U' and '3U' are missing.
valid_part_conforms_no_u ==
    {<<49, 65>>, <<49, 66>>, <<50, 65>>, <<50, 66>>, <<51, 65>>, <<51, 66>>}

\* {'1A', '1B', '2A', '2B', '2U', '3A', '3B', '3U'}
valid_part_conforms ==
    {<<49, 65>>, <<49, 66>>, <<50, 65>>, <<50, 66>>, <<50, 85>>,
     <<51, 65>>, <<51, 66>>, <<51, 85>>}

\* pdfmeta.pdfa_status is None (absent) or a str.
NoStatus == [present |-> FALSE, value |-> <<>>]
Status(v) == [present |-> TRUE, value |-> v]

\* Variant of status_truthy: only None is false ("is not None").
status_not_none(status) == status.present

\* Python truth of pdfmeta.pdfa_status: None and '' are false.
status_truthy(status) == status.present /\ status.value # <<>>

\* Variant of format_conformance: the status alone, without 'PDF/A-'.
format_conformance_bare(status) == status.value

\* 'PDF/A-{}'.format(pdfmeta.pdfa_status)
format_conformance(status) == PDFA_PREFIX \o status.value

\* Variant of pdfa_dict: an unrecognized status is reported as a failure.
pdfa_dict_default_fail(status) ==
    IF status.value \in valid_part_conforms
    THEN [pass |-> TRUE, output |-> "pdfa", conformance |-> format_conformance(status)]
    ELSE [pass |-> FALSE, output |-> "pdf", conformance |-> format_conformance(status)]

\* Lines 208-213: the dict built for a status that is present and not empty.
pdfa_dict(status) ==
    IF status.value \in valid_part_conforms
    THEN [pass |-> TRUE, output |-> "pdfa", conformance |-> format_conformance(status)]
    ELSE [conformance |-> format_conformance(status)]

\* file_claims_pdfa(filename).  io is what opening does: "ok", "open_fails"
\* (pikepdf.open raises) or "metadata_fails" (open_metadata raises).  The Pdf
\* object is never closed by the function; its file handle is released when
\* the object is finalized, which the function does not control: finalized
\* says whether that has happened when the call ends.
file_claims_pdfa(filename, io, status, finalized) ==
    /\ op' = "file_claims_pdfa"
    /\ args' = [filename |-> filename, io |-> io, status |-> status]
    /\ IF io = "open_fails"
       THEN /\ outcome' = "PdfError"
            /\ result' = <<>>
            /\ opened' = 0
            /\ open_handles' = 0
       ELSE /\ opened' = 1
            /\ open_handles' = IF finalized THEN 0 ELSE 1
            /\ IF io = "metadata_fails"
               THEN /\ outcome' = "PdfError"
                    /\ result' = <<>>
               ELSE /\ outcome' = "return"
                    /\ result' = IF ~status_truthy(status)
                                 THEN [pass |-> FALSE, output |-> "pdf",
                                       conformance |-> NO_PDFA_METADATA]
                                 ELSE pdfa_dict(status)
    /\ UNCHANGED <<SRGB_ICC_PROFILE, fs>>

(***************************************************************************)
(* encode_text_string and _encode_ascii                                    *)
(***************************************************************************)

\* s.replace('\x00', '') and, in general, s without the code points in D.
RECURSIVE delete_chars(_, _)
delete_chars(s, D) ==
    IF s = <<>> THEN <<>>
    ELSE IF Head(s) \in D THEN delete_chars(Tail(s), D)
    ELSE <<Head(s)>> \o delete_chars(Tail(s), D)

\* Variant of utf16be_char: the units are written low byte first (UTF-16LE).
utf16le_char(c) ==
    IF c < 65536 THEN <<c % 256, c \div 256>>
    ELSE LET hi == 55296 + ((c - 65536) \div 1024)
             lo == 56320 + ((c - 65536) % 1024)
         IN  <<hi % 256, hi \div 256, lo % 256, lo \div 256>>

\* UTF-16BE of one code point that is not a surrogate: one unit, or a
\* surrogate pair above U+FFFF, each unit high byte first.
utf16be_char(c) ==
    IF c < 65536 THEN <<c \div 256, c % 256>>
    ELSE LET hi == 55296 + ((c - 65536) \div 1024)
             lo == 56320 + ((c - 65536) % 1024)
         IN  <<hi \div 256, hi % 256, lo \div 256, lo % 256>>

RECURSIVE utf16be(_)
\* s.encode('utf-16be') for s without surrogates.
utf16be(s) == IF s = <<>> THEN <<>> ELSE utf16be_char(Head(s)) \o utf16be(Tail(s))

\* s.encode('utf-16be') raises UnicodeEncodeError on any surrogate code point.
CanUtf16(s) == \A i \in 1..Len(s) : ~IsSurrogate(s[i])

\* The body of encode_text_string for a string it can encode.
encode_text_string_value(s) ==
    LET t == delete_chars(s, {0})
    IN  IF t = <<>> THEN <<>>
        ELSE lower(ascii_decode(hexlify(<<254, 255>> \o utf16be(t))))

\* encode_text_string(s)
encode_text_string(s) ==
    /\ op' = "encode_text_string"
    /\ args' = [s |-> s]
    /\ IF CanUtf16(delete_chars(s, {0}))
       THEN /\ outcome' = "return"
            /\ result' = encode_text_string_value(s)
       ELSE /\ outcome' = "UnicodeEncodeError"
            /\ result' = <<>>
    /\ UNCHANGED <<SRGB_ICC_PROFILE, fs, opened, open_handles>>

\* Variant of trans: ')' is not deleted.
trans_without_rparen == {40, 92, 0}

\* The keys of str.maketrans({'(': '', ')': '', '\\': '', '\0': ''}).
trans == {40, 41, 92, 0}

\* .encode('ascii', errors='replace').decode(): '?' for every non-ASCII code point.
ascii_replace(s) == [i \in 1..Len(s) |-> IF s[i] < 128 THEN s[i] ELSE 63]

\* The value of _encode_ascii(s).
_encode_ascii_value(s) == ascii_replace(delete_chars(s, trans))

\* _encode_ascii(s)
_encode_ascii(s) ==
    /\ op' = "_encode_ascii"
    /\ args' = [s |-> s]
    /\ outcome' = "return"
    /\ result' = _encode_ascii_value(s)
    /\ UNCHANGED <<SRGB_ICC_PROFILE, fs, opened, open_handles>>

(***************************************************************************)
(* Inputs and specifications.                                              *)
(***************************************************************************)

\* Characters of installation paths: '/', U+00E9, U+20AC, U+1F600 and U+DCFF,
\* the escape of an undecodable byte 0xFF in a file name.
PathChars == {47, 233, 8364, 128512, 56575}

\* The paths pkg_resources.resource_filename may return.
ProfilePaths == SeqsUpTo(PathChars, MaxPathLen)

\* '/sRGB.icc'
DefaultProfile == <<47, 115, 82, 71, 66, 46, 105, 99, 99>>

\* Identifiers a caller may pass as icc: 'sRGB', 'srgb', 'CMYK'.
IccIdentifiers == {sRGB, <<115, 114, 103, 98>>, <<67, 77, 89, 75>>}

\* Output paths a caller may pass.
Targets == {"a.ps", "b.ps"}

\* 'old', the content of a file that exists before the call.
OldContent == <<111, 108, 100>>

\* Characters of status values: '1', '2', '3', '4', 'A', 'B', 'U', 'a'.
StatusChars == {49, 50, 51, 52, 65, 66, 85, 97}

\* The status values the metadata may hold.
Statuses == {NoStatus} \cup {Status(v) : v \in SeqsUpTo(StatusChars, MaxStatusLen)}

\* Characters of encoder inputs: NUL, LF, 'A', '(', ')', '\', DEL, U+00E9,
\* U+20AC, U+1F600 and the surrogates U+D83D, U+DE00.
TextChars == {0, 10, 65, 40, 41, 92, 127, 233, 8364, 128512, 55357, 56832}

\* The strings given to the encoders.
Texts == SeqsUpTo(TextChars, MaxStrLen)

InitCall ==
    /\ op = "none"
    /\ args = <<>>
    /\ outcome = "none"
    /\ result = <<>>
    /\ opened = 0
    /\ open_handles = 0

\* The pdfmark generator, for every installation path and target state.
InitPdfmark ==
    /\ SRGB_ICC_PROFILE \in ProfilePaths
    /\ fs \in [Targets -> {NoFile, File(OldContent)}]
    /\ InitCall

NextPdfmark ==
    \E t \in Targets, icc \in IccIdentifiers, io \in {"ok", "open_fails", "write_fails"} :
        generate_pdfa_ps(t, icc, io)

SpecPdfmark == InitPdfmark /\ [][NextPdfmark]_vars

InitFixed ==
    /\ SRGB_ICC_PROFILE = DefaultProfile
    /\ fs = [t \in Targets |-> NoFile]
    /\ InitCall

\* The claim checker, for every status value.
NextClaims ==
    \E f \in {"in.pdf"}, io \in {"ok", "open_fails", "metadata_fails"},
       status \in Statuses, finalized \in BOOLEAN :
        file_claims_pdfa(f, io, status, finalized)

SpecClaims == InitFixed /\ [][NextClaims]_vars

\* The text encoders, for every input string.
NextText ==
    \/ \E s \in Texts : encode_text_string(s)
    \/ \E s \in Texts : _encode_ascii(s)

SpecText == InitFixed /\ [][NextText]_vars

(***************************************************************************)
(* Decoders used to state the properties.                                  *)
(***************************************************************************)

\* The codes the specification calls recognized: 1A 1B 2A 2B 2U 3A 3B 3U.
RecognizedCodes ==
    {<<p, c>> : p \in {49, 50}, c \in {65, 66}} \cup {<<50, 85>>}
        \cup {<<51, c>> : c \in {65, 66, 85}}

\* A hex digit 0-9, a-f or A-F, and its value.
IsHexDigit(c) == (c >= 48 /\ c <= 57) \/ (c >= 97 /\ c <= 102) \/ (c >= 65 /\ c <= 70)
HexValue(c) == IF c <= 57 THEN c - 48 ELSE IF c >= 97 THEN c - 87 ELSE c - 55

\* Hex-decoding: the bytes written by an even number of hex digits.
IsHex(h) == Len(h) % 2 = 0 /\ \A i \in 1..Len(h) : IsHexDigit(h[i])
unhexlify(h) == [i \in 1..(Len(h) \div 2) |-> 16 * HexValue(h[2 * i - 1]) + HexValue(h[2 * i])]

\* '/ICCProfile '
ICCProfileKey == <<47, 73, 67, 67, 80, 114, 111, 102, 105, 108, 101, 32>>

\* The positions right after an occurrence of key in data.
After(data, key) ==
    {i + Len(key) : i \in {j \in 1..(Len(data) - Len(key) + 1) :
                              SubSeq(data, j, j + Len(key) - 1) = key}}

\* data has, right after '/ICCProfile ', a literal '<' hex digits '>'.
HasIccLiteral(data) ==
    /\ After(data, ICCProfileKey) # {}
    /\ LET b == Min(After(data, ICCProfileKey))
       IN  /\ b <= Len(data)
           /\ data[b] = 60
           /\ \E e \in (b + 1)..Len(data) :
                /\ data[e] = 62
                /\ IsHex(SubSeq(data, b + 1, e - 1))

\* The hex digits of that literal.
IccLiteralDigits(data) ==
    LET b == Min(After(data, ICCProfileKey))
        e == Min({k \in (b + 1)..Len(data) : data[k] = 62})
    IN  SubSeq(data, b + 1, e - 1)

\* bs without a leading byte order mark FE FF.
StripBom(bs) ==
    IF Len(bs) >= 2 /\ bs[1] = 254 /\ bs[2] = 255 THEN SubSeq(bs, 3, Len(bs)) ELSE bs

\* The 16-bit units of big-endian bytes.
Units(bs) == [i \in 1..(Len(bs) \div 2) |-> 256 * bs[2 * i - 1] + bs[2 * i]]

RECURSIVE DecodeUnits(_)
\* UTF-16 decoding of units: a high and a low surrogate make one code point.
DecodeUnits(u) ==
    IF u = <<>> THEN <<>>
    ELSE IF Len(u) >= 2 /\ u[1] >= 55296 /\ u[1] <= 56319 /\ u[2] >= 56320 /\ u[2] <= 57343
         THEN <<65536 + 1024 * (u[1] - 55296) + (u[2] - 56320)>> \o DecodeUnits(Tail(Tail(u)))
    ELSE <<Head(u)>> \o DecodeUnits(Tail(u))

\* The text a hex string of BOM + UTF-16BE stands for.
DecodeTextString(h) == DecodeUnits(Units(StripBom(unhexlify(h))))

\* s with its NUL characters removed.
WithoutNul(s) == SelectSeq(s, LAMBDA c : c # 0)

\* s contains a surrogate code point, which UTF-16 cannot encode.
HasSurrogate(s) == \E i \in 1..Len(s) : s[i] >= 55296 /\ s[i] <= 57343

\* The status read by the last file_claims_pdfa call is absent or empty.
StatusMissing == ~args.status.present \/ args.status.value = <<>>

\* The last call was file_claims_pdfa and it returned.
Claimed == op = "file_claims_pdfa" /\ outcome = "return"

\* The last call was generate_pdfa_ps with icc = 'sRGB' and it returned.
Generated ==
    op = "generate_pdfa_ps" /\ args.icc = <<115, 82, 71, 66>> /\ outcome = "return"

(***************************************************************************)
(* Properties.                                                             *)
(***************************************************************************)

\* C1 as stated: the conformance of every result is the no-metadata string or
\* 'PDF/A-' followed by a recognized code.
C1_ConformanceAlwaysRecognized ==
    Claimed =>
        \/ result.conformance = NO_PDFA_METADATA
        \/ \E c \in RecognizedCodes : result.conformance = <<80, 68, 70, 47, 65, 45>> \o c

\* C1 amended: the conformance of every result is the no-metadata string when
\* the status is absent or empty, and otherwise 'PDF/A-' followed by the status
\* as read; it ends in a recognized code whenever the result has pass = true.
C1_ConformanceFollowsStatus ==
    Claimed =>
        /\ result.conformance =
              IF StatusMissing THEN NO_PDFA_METADATA
              ELSE <<80, 68, 70, 47, 65, 45>> \o args.status.value
        /\ ("pass" \in DOMAIN result /\ result.pass) =>
              \E c \in RecognizedCodes : result.conformance = <<80, 68, 70, 47, 65, 45>> \o c

\* A status '4' was read and reported as 'PDF/A-4'.
C1_Witness ==
    /\ Claimed
    /\ args.status = [present |-> TRUE, value |-> <<52>>]
    /\ result.conformance = <<80, 68, 70, 47, 65, 45, 52>>

\* C2: a call with an icc other than 'sRGB' fails with NotImplementedError and
\* leaves every file as it was: none created, none changed.
C2_UnsupportedIccNoWrite ==
    [][(op' = "generate_pdfa_ps" /\ args'.icc # <<115, 82, 71, 66>>)
          => (outcome' = "NotImplementedError" /\ fs' = fs)]_vars

\* 'CMYK' was rejected with a.ps still missing and b.ps still holding 'old'.
C2_Witness ==
    /\ op = "generate_pdfa_ps"
    /\ args.icc = <<67, 77, 89, 75>>
    /\ outcome = "NotImplementedError"
    /\ fs["a.ps"] = [exists |-> FALSE, data |-> <<>>]
    /\ fs["b.ps"] = [exists |-> TRUE, data |-> <<111, 108, 100>>]

\* C3: in the file written for icc = 'sRGB', '/ICCProfile ' is followed by
\* '<' hex digits '>' and the digits decode to the bytes of the profile path.
C3_HexLiteralDecodesToPath ==
    Generated =>
        LET f == fs[args.target_filename]
        IN  /\ f.exists
            /\ HasIccLiteral(f.data)
            /\ unhexlify(IccLiteralDigits(f.data)) = fsencode(SRGB_ICC_PROFILE)

\* The path U+00E9 U+DCFF was written as <c3a9ff>.
C3_Witness ==
    /\ Generated
    /\ SRGB_ICC_PROFILE = <<233, 56575>>
    /\ HasIccLiteral(fs[args.target_filename].data)
    /\ IccLiteralDigits(fs[args.target_filename].data) = <<99, 51, 97, 57, 102, 102>>

\* C4: a recognized status S gives exactly {pass: true, output: 'pdfa',
\* conformance: 'PDF/A-' + S}.
C4_RecognizedStatusPasses ==
    (Claimed /\ args.status.present /\ args.status.value \in RecognizedCodes) =>
        result = [pass |-> TRUE, output |-> "pdfa",
                  conformance |-> <<80, 68, 70, 47, 65, 45>> \o args.status.value]

\* The status '2U' gave pass = true with 'PDF/A-2U'.
C4_Witness ==
    /\ Claimed
    /\ args.status = [present |-> TRUE, value |-> <<50, 85>>]
    /\ result = [pass |-> TRUE, output |-> "pdfa",
                 conformance |-> <<80, 68, 70, 47, 65, 45, 50, 85>>]

\* C5: when the PDF and its metadata open and the status is absent or empty,
\* the call returns exactly {pass: false, output: 'pdf', conformance:
\* 'No PDF/A metadata in XMP'}.
C5_MissingStatusFails ==
    (op = "file_claims_pdfa" /\ args.io = "ok" /\ StatusMissing) =>
        /\ outcome = "return"
        /\ result = [pass |-> FALSE, output |-> "pdf",
                     conformance |-> <<78, 111, 32, 80, 68, 70, 47, 65, 32, 109, 101, 116,
                                       97, 100, 97, 116, 97, 32, 105, 110, 32, 88, 77, 80>>]

\* An empty status was read and the no-metadata result returned.
C5_Witness ==
    /\ Claimed
    /\ args.status = [present |-> TRUE, value |-> <<>>]
    /\ result.pass = FALSE
    /\ result.output = "pdf"

\* C6 as stated: for every s, encode_text_string returns a hex string that
\* decodes to s without its NULs.
C6_RoundTripEveryString ==
    op = "encode_text_string" =>
        /\ outcome = "return"
        /\ IsHex(result)
        /\ DecodeTextString(result) = WithoutNul(args.s)

\* C6 amended: for every s without surrogate code points, encode_text_string
\* returns a hex string that decodes to s without its NULs; for an s with a
\* surrogate code point it raises UnicodeEncodeError.
C6_RoundTripEncodable ==
    op = "encode_text_string" =>
        IF HasSurrogate(args.s)
        THEN outcome = "UnicodeEncodeError"
        ELSE /\ outcome = "return"
             /\ IsHex(result)
             /\ DecodeTextString(result) = WithoutNul(args.s)

\* NUL U+1F600 was encoded as feffd83dde00.
C6_Witness ==
    /\ op = "encode_text_string"
    /\ args.s = <<0, 128512>>
    /\ outcome = "return"
    /\ result = <<102, 101, 102, 102, 100, 56, 51, 100, 100, 101, 48, 48>>

\* C7 as stated: every character of the output of _encode_ascii is printable
\* ASCII (32..126) and none is '(', ')' or '\'.
C7_OutputPrintable ==
    op = "_encode_ascii" =>
        \A i \in 1..Len(result) :
            result[i] >= 32 /\ result[i] <= 126 /\ result[i] \notin {40, 41, 92}

\* C7 amended: every character of the output of _encode_ascii is ASCII and not
\* NUL (1..127; control characters other than NUL pass through) and none is
\* '(', ')' or '\'.
C7_OutputAsciiNoDelimiters ==
    op = "_encode_ascii" =>
        \A i \in 1..Len(result) :
            result[i] >= 1 /\ result[i] <= 127 /\ result[i] \notin {40, 41, 92}

\* ')' U+00E9 was turned into '?'.
C7_Witness ==
    /\ op = "_encode_ascii"
    /\ args.s = <<41, 233>>
    /\ result = <<63>>

\* C8: a call of file_claims_pdfa or generate_pdfa_ps opens at most one file
\* handle and none is open when the call has ended.
C8_HandleReleased ==
    op \in {"file_claims_pdfa", "generate_pdfa_ps"} => (opened <= 1 /\ open_handles = 0)

\* C9: with icc = 'sRGB' the write never fails on encoding, and the file of a
\* successful call holds ASCII bytes only.
C9_OutputAscii ==
    (op = "generate_pdfa_ps" /\ args.icc = <<115, 82, 71, 66>>) =>
        /\ outcome \notin {"UnicodeEncodeError", "UnicodeDecodeError"}
        /\ outcome = "return" =>
              /\ fs[args.target_filename].exists
              /\ Len(fs[args.target_filename].data) > 0
              /\ \A i \in 1..Len(fs[args.target_filename].data) :
                    fs[args.target_filename].data[i] < 128

\* A file starting with '%!' was written for the path U+20AC U+1F600 and it
\* is all ASCII.
C9_Witness ==
    /\ Generated
    /\ SRGB_ICC_PROFILE = <<8364, 128512>>
    /\ SubSeq(fs[args.target_filename].data, 1, 2) = <<37, 33>>
    /\ \A i \in 1..Len(fs[args.target_filename].data) : fs[args.target_filename].data[i] < 128

\* C10: an unrecognized non-empty status S gives a result with conformance
\* 'PDF/A-' + S and neither 'pass' nor 'output'.
C10_UnrecognizedStatusUnset ==
    (Claimed /\ ~StatusMissing /\ args.status.value \notin RecognizedCodes) =>
        /\ DOMAIN result = {"conformance"}
        /\ result.conformance = <<80, 68, 70, 47, 65, 45>> \o args.status.value

\* The status '1U' gave {conformance: 'PDF/A-1U'} and nothing else.
C10_Witness ==
    /\ Claimed
    /\ args.status = [present |-> TRUE, value |-> <<49, 85>>]
    /\ result = [conformance |-> <<80, 68, 70, 47, 65, 45, 49, 85>>]

====
